---- MODULE Spec2Model ----
(***************************************************************************)
(* Model of src/routes/+page.svelte: the image question-answering page.    *)
(* The page holds six reactive cells (image, imageUrl, question,           *)
(* isDragging, description, isLoading).  resizeImage runs as two callbacks *)
(* (img.onload, canvas.toBlob), submitForm as two awaits (fetch,           *)
(* response.json); all handlers run on the single event loop, so every     *)
(* handler segment between two suspension points is one atomic action.     *)
(***************************************************************************)
EXTENDS Integers, Sequences, FiniteSets, TLC

VARIABLES
    image,        \* File | null          (line 3)
    imageUrl,     \* object URL | null    (line 4)
    question,     \* string               (line 5)
    isDragging,   \* boolean              (line 6)
    description,  \* string | null, or undefined after a body without the field (line 7)
    isLoading,    \* boolean              (line 8)
    prepares,     \* the resizeImage calls made so far, one record per call
    submits,      \* the submitForm calls that passed validation, one record per call
    alerts,       \* number of alert() calls made by submitForm
    requests      \* number of fetch('/api/ask') calls made by submitForm

vars == <<image, imageUrl, question, isDragging, description, isLoading,
          prepares, submits, alerts, requests>>

----------------------------------------------------------------------------
(* Bounds of the model *)

MaxCalls == 3         \* file selections and Submit clicks in one run of Spec
MaxPasses == 2        \* times an image is fed through resizeImage in ResizeSpec
Near == 12            \* dimensions within Near of the 800 limit are enumerated
MaxSmall == 6         \* dimensions 1..MaxSmall are enumerated
MaxHundreds == 20     \* dimensions 100, 200, .. 100 * MaxHundreds are enumerated

----------------------------------------------------------------------------
(* Program constants *)

MAX_WIDTH == 800

\* Variant: a lower limit for the height than for the width.
MAX_HEIGHT_LOWER == MAX_WIDTH - 200

MAX_HEIGHT == 800

ERROR_TEXT == "An error occurred while processing your request."

----------------------------------------------------------------------------
(* Values *)

Null == [t |-> "null"]
Undefined == [t |-> "undefined"]
Str(s) == [t |-> "string", v |-> s]

\* A File: declared name and media type, the byte encoding it really holds,
\* the intrinsic size of the picture, whether the browser can decode it, and
\* whether it was built by resizeImage (line 43) rather than picked by the user.
File(name, type, encoding, width, height, decodes, resized) ==
    [t |-> "File", name |-> name, type |-> type, encoding |-> encoding,
     width |-> width, height |-> height, decodes |-> decodes, resized |-> resized]

\* URL.createObjectURL: a URL that designates the file it was made from.
CreateObjectURL(file) == [t |-> "url", file |-> file]

\* Encodings canvas.toBlob can produce; any other requested type yields PNG.
CanvasEncodings == {"image/png", "image/jpeg"}

----------------------------------------------------------------------------
(* resizeImage, lines 13-48 *)

\* Variant: Math.floor in place of Math.round.
RoundDown(num, den) == num \div den

\* Math.round(num / den) for num >= 0, den > 0: the nearest integer, a tie
\* going up.  num / den is a tie only if 2*num = (2k+1)*den, which the
\* integer form below decides exactly.
Round(num, den) == (2 * num + den) \div (2 * den)

\* Variant: lines 26/27 and 31/32 in the other order, so the second
\* assignment reads the side that was just overwritten.
ResizeDimsSwapped(width, height) ==
    IF width > height
    THEN IF width > MAX_WIDTH
         THEN [width |-> MAX_WIDTH, height |-> Round(height * MAX_WIDTH, MAX_WIDTH)]
         ELSE [width |-> width, height |-> height]
    ELSE IF height > MAX_HEIGHT
         THEN [width |-> Round(width * MAX_HEIGHT, MAX_HEIGHT), height |-> MAX_HEIGHT]
         ELSE [width |-> width, height |-> height]

\* Variant: the inner tests of lines 25 and 30 left out, so every picture is
\* scaled to the limit, small ones upwards.
ResizeDimsAlways(width, height) ==
    IF width > height
    THEN [width |-> MAX_WIDTH, height |-> Round(height * MAX_WIDTH, width)]
    ELSE [width |-> Round(width * MAX_HEIGHT, height), height |-> MAX_HEIGHT]

\* Variant: line 30 tests width again (copied from line 25) instead of height.
ResizeDimsCopied(width, height) ==
    IF width > height
    THEN IF width > MAX_WIDTH
         THEN [width |-> MAX_WIDTH, height |-> Round(height * MAX_WIDTH, width)]
         ELSE [width |-> width, height |-> height]
    ELSE IF width > MAX_HEIGHT
         THEN [width |-> Round(width * MAX_HEIGHT, height), height |-> MAX_HEIGHT]
         ELSE [width |-> width, height |-> height]

\* Lines 21-34: the canvas size for a picture of the given intrinsic size.
ResizeDims(width, height) ==
    IF width > height
    THEN IF width > MAX_WIDTH
         THEN [width |-> MAX_WIDTH, height |-> Round(height * MAX_WIDTH, width)]
         ELSE [width |-> width, height |-> height]
    ELSE IF height > MAX_HEIGHT
         THEN [width |-> Round(width * MAX_HEIGHT, height), height |-> MAX_HEIGHT]
         ELSE [width |-> width, height |-> height]

\* Line 41/45: canvas.toBlob(callback, file.type).  The callback receives null
\* when the canvas has no pixels, otherwise a blob of the canvas size, encoded
\* as the requested type if the canvas can produce it and as PNG if not.
ToBlob(width, height, type) ==
    IF width = 0 \/ height = 0
    THEN Null
    ELSE [t |-> "Blob", width |-> width, height |-> height,
          type |-> IF type \in CanvasEncodings THEN type ELSE "image/png"]

\* Variant: the new file takes the blob's type instead of file.type.
NewFileBlobType(blob, file) ==
    File(file.name, blob.type, blob.type, blob.width, blob.height, TRUE, TRUE)

\* Line 43: new File([blob], file.name, { type: file.type }).
NewFile(blob, file) ==
    File(file.name, file.type, blob.type, blob.width, blob.height, TRUE, TRUE)

\* Lines 15-17: the call creates the Image and starts decoding; the promise
\* is pending until the toBlob callback resolves it.
NewPrepare(file) ==
    [file |-> file, pc |-> "onload", width |-> 0, height |-> 0, result |-> Null]

\* Lines 18-39: img.onload.  It fires only if the file decodes (there is no
\* onerror handler); it sizes the canvas, draws, and calls toBlob.
ImgOnload(i) ==
    /\ i \in 1..Len(prepares)
    /\ prepares[i].pc = "onload"
    /\ prepares[i].file.decodes
    /\ LET dims == ResizeDims(prepares[i].file.width, prepares[i].file.height)
       IN prepares' = [prepares EXCEPT ![i].pc = "toBlob",
                                       ![i].width = dims.width,
                                       ![i].height = dims.height]
    /\ UNCHANGED <<image, imageUrl, question, isDragging, description,
                   isLoading, submits, alerts, requests>>

\* Variant: the continuation stores the file only if no newer selection was
\* made in the meantime.
ToBlobCallbackLatestOnly(i) ==
    /\ i \in 1..Len(prepares)
    /\ prepares[i].pc = "toBlob"
    /\ LET blob == ToBlob(prepares[i].width, prepares[i].height, prepares[i].file.type)
       IN IF blob # Null
          THEN LET resized == NewFile(blob, prepares[i].file)
               IN /\ prepares' = [prepares EXCEPT ![i].pc = "resolved",
                                                  ![i].result = resized]
                  /\ image' = IF i = Len(prepares) THEN resized ELSE image
                  /\ imageUrl' = IF i = Len(prepares) THEN CreateObjectURL(resized)
                                                      ELSE imageUrl
          ELSE /\ prepares' = [prepares EXCEPT ![i].pc = "unresolved"]
               /\ UNCHANGED <<image, imageUrl>>
    /\ UNCHANGED <<question, isDragging, description, isLoading, submits, alerts,
                   requests>>

\* Lines 41-45 and the continuation of the awaiting handler (lines 54-55 or
\* 64-65): the toBlob callback.  With a blob it resolves the promise, and the
\* handler's continuation runs as a microtask before any other event: it
\* stores the new file and its preview URL.  With null nothing is resolved.
ToBlobCallback(i) ==
    /\ i \in 1..Len(prepares)
    /\ prepares[i].pc = "toBlob"
    /\ LET blob == ToBlob(prepares[i].width, prepares[i].height, prepares[i].file.type)
       IN IF blob # Null
          THEN LET resized == NewFile(blob, prepares[i].file)
               IN /\ prepares' = [prepares EXCEPT ![i].pc = "resolved",
                                                  ![i].result = resized]
                  /\ image' = resized
                  /\ imageUrl' = CreateObjectURL(resized)
          ELSE /\ prepares' = [prepares EXCEPT ![i].pc = "unresolved"]
               /\ UNCHANGED <<image, imageUrl>>
    /\ UNCHANGED <<question, isDragging, description, isLoading, submits, alerts,
                   requests>>

----------------------------------------------------------------------------
(* File selection, lines 50-76 *)

\* Lines 50-57 with a non-empty file list: hold the raw file, start resizeImage.
handleFileUpload(file) ==
    /\ image' = file
    /\ prepares' = Append(prepares, NewPrepare(file))
    /\ UNCHANGED <<imageUrl, question, isDragging, description, isLoading,
                   submits, alerts, requests>>

\* Lines 59-67 with a non-empty drop payload.
handleDrop(file) ==
    /\ isDragging' = FALSE
    /\ image' = file
    /\ prepares' = Append(prepares, NewPrepare(file))
    /\ UNCHANGED <<imageUrl, question, description, isLoading, submits, alerts,
                   requests>>

\* Lines 59-62 with an empty drop payload (text or a link dragged in).
handleDropNoFile ==
    /\ isDragging' = FALSE
    /\ UNCHANGED <<image, imageUrl, question, description, isLoading,
                   prepares, submits, alerts, requests>>

\* Lines 69-72.
handleDragOver ==
    /\ isDragging' = TRUE
    /\ UNCHANGED <<image, imageUrl, question, description, isLoading,
                   prepares, submits, alerts, requests>>

\* Lines 74-76.
handleDragLeave ==
    /\ isDragging' = FALSE
    /\ UNCHANGED <<image, imageUrl, question, description, isLoading,
                   prepares, submits, alerts, requests>>
----------------------------------------------------------------------------
(* The question box, line 146 *)

\* Variant: the request body reads the question cell when it is sent, so an
\* edit reaches the requests still waiting.
SetQuestionLive(q) ==
    /\ question' = q
    /\ submits' = [i \in 1..Len(submits) |->
                     IF submits[i].pc = "fetch"
                     THEN [submits[i] EXCEPT !.formData.question = q]
                     ELSE submits[i]]
    /\ UNCHANGED <<image, imageUrl, isDragging, description, isLoading,
                   prepares, alerts, requests>>

\* bind:value={question}: the user edits the text.
SetQuestion(q) ==
    /\ question' = q
    /\ UNCHANGED <<image, imageUrl, isDragging, description, isLoading,
                   prepares, submits, alerts, requests>>

----------------------------------------------------------------------------
(* submitForm, lines 85-113 *)

\* What the endpoint can send back.  fetch rejects on a network failure and
\* fulfils with a Response for every HTTP status (ok is status 200-299).
\* The body, read by response.json(), is a JSON object (with or without a
\* description field), the JSON value null, or no JSON at all.
Reject == [t |-> "reject"]
Response(ok) == [t |-> "Response", ok |-> ok]
JsonObject(desc) == [t |-> "object", description |-> desc]
JsonNull == [t |-> "jsonNull"]
NotJson == [t |-> "notJson"]

\* Lines 92-94: the multipart body built from the cells at submit time.
FormData(img, q) == [image |-> img, question |-> q]

\* Lines 91-101: the call that passed validation, suspended in await fetch.
\* response and body record what fetch and response.json() settled with.
NewSubmit(img, q) ==
    [pc |-> "fetch", formData |-> FormData(img, q), response |-> Null, body |-> Null]

\* The call has returned: its locals are gone, what it received is kept.
Done(response, body) ==
    [pc |-> "done", formData |-> Null, response |-> response, body |-> body]

\* Variant: line 86 with && in place of ||.
submitFormBothMissing ==
    IF image = Null /\ question = ""
    THEN /\ alerts' = alerts + 1
         /\ UNCHANGED <<image, imageUrl, question, isDragging, description,
                        isLoading, prepares, submits, requests>>
    ELSE /\ isLoading' = TRUE
         /\ submits' = Append(submits, NewSubmit(image, question))
         /\ requests' = requests + 1
         /\ UNCHANGED <<image, imageUrl, question, isDragging, description,
                        prepares, alerts>>

\* Variant: line 91 left out, the loading flag is never raised.
submitFormNoFlag ==
    IF image = Null \/ question = ""
    THEN /\ alerts' = alerts + 1
         /\ UNCHANGED <<image, imageUrl, question, isDragging, description,
                        isLoading, prepares, submits, requests>>
    ELSE /\ submits' = Append(submits, NewSubmit(image, question))
         /\ requests' = requests + 1
         /\ UNCHANGED <<image, imageUrl, question, isDragging, description,
                        isLoading, prepares, alerts>>

\* Lines 85-101: the Submit button.  !image || !question alerts and returns;
\* otherwise the loading flag is raised and the request is issued.
submitForm ==
    IF image = Null \/ question = ""
    THEN /\ alerts' = alerts + 1
         /\ UNCHANGED <<image, imageUrl, question, isDragging, description,
                        isLoading, prepares, submits, requests>>
    ELSE /\ isLoading' = TRUE
         /\ submits' = Append(submits, NewSubmit(image, question))
         /\ requests' = requests + 1
         /\ UNCHANGED <<image, imageUrl, question, isDragging, description,
                        prepares, alerts>>

\* Variant: the catch block logs the error and stores nothing.
CatchFinallyLogOnly(i, response, body) ==
    /\ description' = description
    /\ isLoading' = FALSE
    /\ submits' = [submits EXCEPT ![i] = Done(response, body)]
    /\ requests' = requests

\* Variant: the catch block issues the request again instead of giving up.
CatchFinallyRetry(i, response, body) ==
    /\ submits' = [submits EXCEPT ![i].pc = "fetch", ![i].response = Null]
    /\ requests' = requests + 1
    /\ UNCHANGED <<description, isLoading>>

\* Lines 107-112: catch, then finally.
CatchFinally(i, response, body) ==
    /\ description' = Str(ERROR_TEXT)
    /\ isLoading' = FALSE
    /\ submits' = [submits EXCEPT ![i] = Done(response, body)]
    /\ requests' = requests

\* Line 98 settles: a rejection goes to catch/finally, a Response is kept for
\* response.json() (line 105), whatever its status.
FetchSettles(i, r) ==
    /\ i \in 1..Len(submits)
    /\ submits[i].pc = "fetch"
    /\ IF r = Reject
       THEN CatchFinally(i, r, Null)
       ELSE /\ submits' = [submits EXCEPT ![i].pc = "json", ![i].response = r]
            /\ UNCHANGED <<description, isLoading, requests>>
    /\ UNCHANGED <<image, imageUrl, question, isDragging, prepares, alerts>>

\* Variant: no finally block; the flag is cleared in the catch block only.
JsonSettlesNoFinally(i, body) ==
    /\ i \in 1..Len(submits)
    /\ submits[i].pc = "json"
    /\ IF body.t = "object"
       THEN /\ description' = body.description
            /\ isLoading' = isLoading
            /\ submits' = [submits EXCEPT ![i] = Done(submits[i].response, body)]
            /\ requests' = requests
       ELSE CatchFinally(i, submits[i].response, body)
    /\ UNCHANGED <<image, imageUrl, question, isDragging, prepares, alerts>>

\* Variant: a response is stored only if it answers the newest submit; the
\* result of an older submit is dropped.
JsonSettlesLatestOnly(i, body) ==
    /\ i \in 1..Len(submits)
    /\ submits[i].pc = "json"
    /\ IF body.t = "object"
       THEN /\ description' = IF i = Len(submits) THEN body.description
                                                  ELSE description
            /\ isLoading' = FALSE
            /\ submits' = [submits EXCEPT ![i] = Done(submits[i].response, body)]
            /\ requests' = requests
       ELSE CatchFinally(i, submits[i].response, body)
    /\ UNCHANGED <<image, imageUrl, question, isDragging, prepares, alerts>>

\* Lines 105-112: response.json() settles on the body the endpoint sent.  A
\* body that is no JSON rejects, and reading .description of null throws:
\* both go to catch.  For an object the field is stored as it is (undefined
\* when absent); then finally.
JsonSettles(i, body) ==
    /\ i \in 1..Len(submits)
    /\ submits[i].pc = "json"
    /\ IF body.t = "object"
       THEN /\ description' = body.description
            /\ isLoading' = FALSE
            /\ submits' = [submits EXCEPT ![i] = Done(submits[i].response, body)]
            /\ requests' = requests
       ELSE CatchFinally(i, submits[i].response, body)
    /\ UNCHANGED <<image, imageUrl, question, isDragging, prepares, alerts>>

----------------------------------------------------------------------------
(* Inputs *)

\* Files the user picks or drops in Spec: a landscape photo that is scaled
\* down, a small picture that is not, and a file that is no picture at all.
Uploads ==
    { File("cat.png", "image/png", "image/png", 1600, 1200, TRUE, FALSE),
      File("icon.gif", "image/gif", "image/gif", 500, 500, TRUE, FALSE),
      File("notes.txt", "text/plain", "text/plain", 0, 0, FALSE, FALSE) }

Questions == {"", "what is this?"}

Answers == {Str("a cat"), Str("two")}

Bodies == {JsonObject(d) : d \in Answers \cup {Undefined}} \cup {JsonNull, NotJson}

Responses == {Reject} \cup {Response(ok) : ok \in BOOLEAN}

\* Picture sizes enumerated in ResizeSpec: the small ones, those around the
\* 800 limit, and the round hundreds up to well beyond it.
Dims ==
    (1..MaxSmall) \cup ((MAX_WIDTH - Near)..(MAX_WIDTH + Near))
                  \cup {100 * k : k \in 1..MaxHundreds}

Named == { <<"cat.png", "image/png">>, <<"icon.gif", "image/gif">> }

Pictures ==
    { File(n[1], n[2], n[2], w, h, TRUE, FALSE) : n \in Named, w \in Dims, h \in Dims }

----------------------------------------------------------------------------
(* The page *)

Init ==
    /\ image = Null
    /\ imageUrl = Null
    /\ question = ""
    /\ isDragging = FALSE
    /\ description = Null
    /\ isLoading = FALSE
    /\ prepares = <<>>
    /\ submits = <<>>
    /\ alerts = 0
    /\ requests = 0

\* The model stops starting new work after MaxCalls selections and clicks;
\* work already started always runs on.
Budget == Len(prepares) + Len(submits) + alerts < MaxCalls

Next ==
    \/ Budget /\ \E f \in Uploads : handleFileUpload(f)
    \/ Budget /\ \E f \in Uploads : handleDrop(f)
    \/ handleDropNoFile
    \/ handleDragOver
    \/ handleDragLeave
    \/ \E i \in 1..MaxCalls : ImgOnload(i)
    \/ \E i \in 1..MaxCalls : ToBlobCallback(i)
    \/ \E q \in Questions : SetQuestion(q)
    \/ Budget /\ submitForm
    \/ \E i \in 1..MaxCalls, r \in Responses : FetchSettles(i, r)
    \/ \E i \in 1..MaxCalls, b \in Bodies : JsonSettles(i, b)

Spec == Init /\ [][Next]_vars

----------------------------------------------------------------------------
(* resizeImage on its own: one picture of any enumerated size is selected,  *)
(* prepared, and the prepared file is selected again, MaxPasses times.      *)

ResizeInit ==
    /\ \E f \in Pictures : /\ image = f
                           /\ prepares = <<NewPrepare(f)>>
    /\ imageUrl = Null
    /\ question = ""
    /\ isDragging = FALSE
    /\ description = Null
    /\ isLoading = FALSE
    /\ submits = <<>>
    /\ alerts = 0
    /\ requests = 0

\* The held prepared file is selected again once its prepare has resolved.
Reselect ==
    /\ Len(prepares) < MaxPasses
    /\ prepares[Len(prepares)].pc = "resolved"
    /\ image = prepares[Len(prepares)].result
    /\ handleFileUpload(image)

ResizeNext ==
    \/ \E i \in 1..MaxPasses : ImgOnload(i)
    \/ \E i \in 1..MaxPasses : ToBlobCallback(i)
    \/ Reselect

ResizeSpec == ResizeInit /\ [][ResizeNext]_vars
----------------------------------------------------------------------------
(* Properties of resizeImage, checked under ResizeSpec *)

\* The onload callback of this call has run: the canvas size is computed.
Sized(p) == p.pc \in {"toBlob", "resolved", "unresolved"}

\* r is num/den rounded to the nearest integer, a tie going up.
IsNearest(r, num, den) ==
    /\ 2 * den * r - den <= 2 * num
    /\ 2 * num < 2 * den * r + den

\* A resolved call hands on a file of exactly the canvas size.
ResultIsCanvas(p) ==
    p.pc = "resolved" => p.result.width = p.width /\ p.result.height = p.height

\* C1: a picture whose longer side exceeds 800 comes out with that side at
\* exactly 800 and the other side at round(other * 800 / longer); a square
\* one larger than 800 comes out 800 x 800.
C1_LongerSideScaledTo800 ==
    \A i \in 1..Len(prepares) :
        LET p == prepares[i]
            w == p.file.width
            h == p.file.height
        IN Sized(p) =>
             /\ (w >= h /\ w > 800) =>
                   (p.width = 800 /\ IsNearest(p.height, h * 800, w))
             /\ (h > w /\ h > 800) =>
                   (p.height = 800 /\ IsNearest(p.width, w * 800, h))
             /\ (w = h /\ w > 800) => (p.width = 800 /\ p.height = 800)
             /\ ResultIsCanvas(p)

C1_Witness ==
    \E i \in 1..Len(prepares) :
        /\ prepares[i].pc = "resolved"
        /\ prepares[i].file.width = 1600 /\ prepares[i].file.height = 1200
        /\ prepares[i].result.width = 800 /\ prepares[i].result.height = 600

\* C2: a picture with both sides at most 800 comes out with its own size.
C2_WithinBoundsUnchanged ==
    \A i \in 1..Len(prepares) :
        LET p == prepares[i]
        IN (Sized(p) /\ p.file.width <= 800 /\ p.file.height <= 800) =>
             /\ p.width = p.file.width
             /\ p.height = p.file.height
             /\ ResultIsCanvas(p)

C2_Witness ==
    \E i \in 1..Len(prepares) :
        /\ prepares[i].pc = "resolved"
        /\ ~prepares[i].file.resized
        /\ prepares[i].file.width = 500 /\ prepares[i].file.height = 300
        /\ prepares[i].result.width = 500 /\ prepares[i].result.height = 300

\* C3 as stated: every square picture, of any size, and every picture
\* within 800 x 800 comes out with its own size.
C3_SquareOrWithinBoundsUnchanged ==
    \A i \in 1..Len(prepares) :
        LET p == prepares[i]
            w == p.file.width
            h == p.file.height
        IN (Sized(p) /\ (w = h \/ (w <= 800 /\ h <= 800))) =>
             (p.width = w /\ p.height = h)

\* C3 amended: a square picture comes out with its own size exactly when its
\* side is at most 800 (a larger square comes out smaller), and every
\* picture within 800 x 800 comes out with its own size.
C3_SquareUnchangedIffWithinBounds ==
    \A i \in 1..Len(prepares) :
        LET p == prepares[i]
            w == p.file.width
            h == p.file.height
        IN Sized(p) =>
             /\ (w = h) => ((p.width = w /\ p.height = h) <=> w <= 800)
             /\ (w <= 800 /\ h <= 800) => (p.width = w /\ p.height = h)

C3_Witness ==
    \E i \in 1..Len(prepares) :
        /\ prepares[i].pc = "resolved"
        /\ ~prepares[i].file.resized
        /\ prepares[i].file.width = 700 /\ prepares[i].file.height = 700
        /\ prepares[i].result.width = 700 /\ prepares[i].result.height = 700

\* C4: the output fits 800 x 800 and no side is larger than in the source.
C4_FitsBoxNeverUpscaled ==
    \A i \in 1..Len(prepares) :
        LET p == prepares[i]
            w == p.file.width
            h == p.file.height
        IN Sized(p) =>
             /\ p.width <= w /\ p.width <= 800
             /\ p.height <= h /\ p.height <= 800
             /\ ResultIsCanvas(p)

C4_Witness ==
    \E i \in 1..Len(prepares) :
        /\ prepares[i].pc = "resolved"
        /\ prepares[i].file.width = 500 /\ prepares[i].file.height = 1600
        /\ prepares[i].result.width = 250 /\ prepares[i].result.height = 800

\* C5: feeding the prepared file through resizeImage again gives the size of
\* the first pass, on every further pass.
C5_IdempotentOnDimensions ==
    \A i \in 2..Len(prepares) :
        LET p == prepares[i]
        IN /\ p.file = prepares[i - 1].result
           /\ Sized(p) => (p.width = prepares[1].width /\ p.height = prepares[1].height)
           /\ p.pc = "resolved" =>
                /\ p.result.width = prepares[1].result.width
                /\ p.result.height = prepares[1].result.height

C5_Witness ==
    /\ Len(prepares) >= 2
    /\ prepares[1].file.width = 1200 /\ prepares[1].file.height = 1600
    /\ prepares[2].pc = "resolved"
    /\ prepares[2].result.width = 600 /\ prepares[2].result.height = 800

\* C6: the resolved file has the name and the media type of the source file,
\* whatever the size and whether or not it was scaled.
C6_NameAndTypeKept ==
    \A i \in 1..Len(prepares) :
        LET p == prepares[i]
        IN p.pc = "resolved" =>
             /\ p.result.name = p.file.name
             /\ p.result.type = p.file.type

C6_Witness ==
    \E i \in 1..Len(prepares) :
        /\ prepares[i].pc = "resolved"
        /\ prepares[i].file.type = "image/gif"
        /\ prepares[i].file.width > 800
        /\ prepares[i].result.type = "image/gif"
        /\ prepares[i].result.name = prepares[i].file.name
        /\ prepares[i].result.encoding = "image/png"

\* C7: for a picture that decodes and has both sides at least 1, once the
\* onload and toBlob callbacks have run the promise is resolved with a file.
C7_WellFormedResolves ==
    \A i \in 1..Len(prepares) :
        LET p == prepares[i]
        IN (/\ p.file.decodes
            /\ p.file.width >= 1 /\ p.file.height >= 1
            /\ p.pc \notin {"onload", "toBlob"}) =>
             (p.pc = "resolved" /\ p.result # Null)
----------------------------------------------------------------------------
(* Properties of submitForm, checked under Spec *)

\* Line 86: the test that makes submitForm alert and return.
Invalid == image = Null \/ question = ""

\* Submit number i returns in this step.
Completes(i) == submits[i].pc # "done" /\ submits'[i].pc = "done"

\* C8: submitForm invoked with no image or an empty question shows the
\* validation message, issues no request, and leaves image, question,
\* description and isLoading as they are.
C8_InvalidSubmitOnlyAlerts ==
    [][/\ Invalid => Len(submits') = Len(submits)
       /\ (Invalid /\ Budget) => ENABLED (submitForm /\ alerts' = alerts + 1)
       /\ (alerts' # alerts) =>
            /\ Invalid
            /\ alerts' = alerts + 1
            /\ UNCHANGED <<image, question, description, isLoading, submits,
                           requests>>]_vars

C8_Witness ==
    /\ alerts = 1
    /\ image # Null
    /\ question = ""
    /\ submits = <<>>
    /\ ~isLoading
    /\ description = Null

\* C9: when the request of a valid submit succeeds with the JSON body
\* {description: d}, the step that completes the submit leaves description
\* equal to d and isLoading false.
C9_SuccessStoresAnswer ==
    [][\A i \in 1..Len(submits) :
          (/\ Completes(i)
           /\ submits'[i].response = Response(TRUE)
           /\ submits'[i].body.t = "object"
           /\ submits'[i].body.description \in Answers) =>
             (description' = submits'[i].body.description /\ isLoading' = FALSE)]_vars

C9_Witness ==
    \E i \in 1..Len(submits) :
        /\ submits[i] = Done(Response(TRUE), JsonObject(Str("a cat")))
        /\ description = Str("a cat")
        /\ isLoading = FALSE

\* C10: when fetch rejects, or the response body is no JSON, the step that
\* completes the submit leaves description equal to the fixed error text and
\* isLoading false.
C10_FailureStoresErrorText ==
    [][\A i \in 1..Len(submits) :
          (/\ Completes(i)
           /\ (submits'[i].response = Reject \/ submits'[i].body = NotJson)) =>
             (/\ description' = Str("An error occurred while processing your request.")
              /\ isLoading' = FALSE)]_vars

C10_Witness ==
    \E i, j \in 1..Len(submits) :
        /\ submits[i] = Done(Reject, Null)
        /\ submits[j].pc = "done" /\ submits[j].body = NotJson
        /\ description = Str("An error occurred while processing your request.")
        /\ isLoading = FALSE
\* A submit is in flight from the fetch call until its continuation returns.
InFlight(s) == s.pc \in {"fetch", "json"}

\* C11: when the endpoint answers a valid submit with a non-success status,
\* whatever the body, the step that completes the submit stores the fixed
\* error text as description and clears isLoading.
C11_BadStatusStoresErrorText ==
    [][\A i \in 1..Len(submits) :
          (Completes(i) /\ submits'[i].response = Response(FALSE)) =>
             (/\ description' = Str("An error occurred while processing your request.")
              /\ isLoading' = FALSE)]_vars

\* C12: every request carries a file returned by resizeImage, with both
\* sides at most 800, and never the raw uploaded file.
C12_RequestCarriesPreparedImage ==
    \A i \in 1..Len(submits) :
        submits[i].pc = "fetch" =>
            /\ submits[i].formData.image.resized
            /\ submits[i].formData.image.width <= 800
            /\ submits[i].formData.image.height <= 800

\* C13: a submit that passes validation raises isLoading in the step that
\* issues its request, and the step in which the request settles, by success
\* or by failure, leaves isLoading false.
C13_LoadingRaisedThenCleared ==
    [][/\ (requests' # requests \/ Len(submits') # Len(submits)) =>
            /\ isLoading'
            /\ requests' = requests + 1
            /\ Len(submits') = Len(submits) + 1
            /\ submits'[Len(submits')].pc = "fetch"
       /\ \A i \in 1..Len(submits) : Completes(i) => ~isLoading']_vars

C13_Witness ==
    /\ Len(submits) = 2
    /\ submits[1].pc = "done" /\ submits[1].response = Reject
    /\ submits[2].pc = "done" /\ submits[2].response = Response(TRUE)
    /\ submits[2].body.t = "object"
    /\ ~isLoading
\* What a finished submit amounts to: the fixed error text when fetch
\* rejected or the body gave no object, otherwise the body's description.
Outcome(s) ==
    IF s.response = Reject \/ s.body.t # "object"
    THEN Str("An error occurred while processing your request.")
    ELSE s.body.description

\* C14: submits are not guarded against re-entrancy.  Every step that
\* settles a submit stores that submit's outcome in description, whichever
\* submit it is, and no other step writes description: once all submits
\* have settled, description is the outcome of the one that settled last.
C14_LastSettledWins ==
    [][/\ \A i \in 1..Len(submits) :
             Completes(i) => description' = Outcome(submits'[i])
       /\ description' # description =>
             \E i \in 1..Len(submits) : Completes(i)]_vars

\* Two submits overlapped and the one issued first settled last: its outcome
\* is the one displayed, not that of the submit issued after it.
C14_Witness ==
    /\ Len(submits) = 2
    /\ submits[1].pc = "done" /\ submits[2].pc = "done"
    /\ Outcome(submits[1]) = Str("a cat")
    /\ Outcome(submits[2]) = Str("two")
    /\ description = Str("a cat")

\* C15: after the selection of a file that does not decode, with no later
\* selection, the prepare never completes, there is no preview, and no
\* request is issued for that file.
C15_UndecodableNeverSubmitted ==
    LET n == Len(prepares)
    IN (n > 0 /\ ~prepares[n].file.decodes) =>
          /\ prepares[n].pc = "onload"
          /\ imageUrl = Null
          /\ \A j \in 1..Len(submits) :
                submits[j].pc = "fetch" =>
                    submits[j].formData.image # prepares[n].file

\* C16: a new selection leaves the prepares already started as they are, and
\* every prepare that resolves stores its file and preview, whether or not a
\* newer selection exists: the prepare that resolves last determines image
\* and imageUrl.
C16_LastResolvedPrepareWins ==
    [][/\ Len(prepares') # Len(prepares) =>
            /\ Len(prepares') = Len(prepares) + 1
            /\ SubSeq(prepares', 1, Len(prepares)) = prepares
            /\ image' = prepares'[Len(prepares')].file
            /\ imageUrl' = imageUrl
       /\ \A i \in 1..Len(prepares) :
            (prepares[i].pc # "resolved" /\ prepares'[i].pc = "resolved") =>
                /\ image' = prepares'[i].result
                /\ imageUrl' = CreateObjectURL(prepares'[i].result)
       /\ (image' # image \/ imageUrl' # imageUrl) =>
            \/ Len(prepares') # Len(prepares)
            \/ \E i \in 1..Len(prepares) :
                  prepares[i].pc # "resolved" /\ prepares'[i].pc = "resolved"]_vars

\* Two prepares overlapped and the older selection resolved last: the held
\* image and the preview are those of the older selection.
C16_Witness ==
    /\ Len(prepares) = 2
    /\ prepares[1].pc = "resolved" /\ prepares[2].pc = "resolved"
    /\ prepares[1].file.name = "cat.png"
    /\ prepares[2].file.name = "icon.gif"
    /\ image = prepares[1].result
    /\ image # prepares[2].result
    /\ imageUrl = CreateObjectURL(prepares[1].result)

\* C17: the number of requests issued equals the number of submitForm calls
\* that passed validation; no request is issued again after a failure.
C17_OneRequestPerValidSubmit ==
    requests = Len(submits)

\* One rejected click and one valid submit whose fetch failed: one request.
C17_Witness ==
    /\ alerts = 1
    /\ Len(submits) = 1
    /\ submits[1] = Done(Reject, Null)
    /\ requests = 1
\* C18 (checked under ResizeSpec): for a picture with both sides at least
\* 1, both sides of the output are at least 1.
C18_OutputAtLeastOnePixel ==
    \A i \in 1..Len(prepares) :
        LET p == prepares[i]
        IN (Sized(p) /\ p.file.width >= 1 /\ p.file.height >= 1) =>
             (p.width >= 1 /\ p.height >= 1)

\* C19: whenever a request is in flight, isLoading is true.
C19_InFlightImpliesLoading ==
    (\E i \in 1..Len(submits) : InFlight(submits[i])) => isLoading

\* C20: a request carries the image and the question held when submitForm
\* was called; while it is in flight nothing changes what it carries, and
\* description changes only in a step that settles a submit.
C20_RequestFrozenAtSubmit ==
    [][/\ Len(submits') # Len(submits) =>
            submits'[Len(submits')].formData = FormData(image, question)
       /\ \A i \in 1..Len(submits) :
            InFlight(submits'[i]) => submits'[i].formData = submits[i].formData
       /\ description' # description =>
            \E i \in 1..Len(submits) : Completes(i)]_vars

\* A request is in flight with the image and question of its submit, while
\* the page already holds another image and another question text.
C20_Witness ==
    \E i \in 1..Len(submits) :
        /\ submits[i].pc = "fetch"
        /\ submits[i].formData.question = "what is this?"
        /\ submits[i].formData.image.name = "cat.png"
        /\ question = ""
        /\ image.name = "icon.gif"
        /\ description = Null

====
